---- MODULE Spec2Model ----
(***************************************************************************)
(* rcp-palette: parse_color (src/src/lib.rs) as a state machine.          *)
(*                                                                         *)
(* A Rust &str is modelled as a sequence of Unicode scalar values (code   *)
(* points); its byte length and byte offsets are computed from the UTF-8  *)
(* width of each scalar, because the code measures and slices in bytes.   *)
(* A panic (unwrap on None, slicing off a char boundary) is the outcome   *)
(* [tag |-> "Panic"].                                                      *)
(***************************************************************************)
EXTENDS Integers, Sequences, FiniteSets, TLC

VARIABLES input, pc, outcome

vars == <<input, pc, outcome>>

(***************************************************************************)
(* Bounds of the model.                                                    *)
(***************************************************************************)
\* longest run of whitespace inserted at one position of an input
MaxPad == 1
\* hex bodies over HexAlphabet are enumerated in full up to this many scalars
MaxHexEnum == 3
\* hues are shifted by 360*k for every k in -MaxTurns..MaxTurns
MaxTurns == 1

(***************************************************************************)
(* Results: Result<Color, ColorParseError>, and a panic.                   *)
(***************************************************************************)
Color(r, g, b) == [tag |-> "Ok", r |-> r, g |-> g, b |-> b]
InvalidLength(n) == [tag |-> "InvalidLength", n |-> n]
ComponentParseError(s, e) == [tag |-> "ComponentParseError", s |-> s, e |-> e]
MissingHashPrefix == [tag |-> "MissingHashPrefix"]
UnsupportedFormat == [tag |-> "UnsupportedFormat"]
RgbInvalidFormat == [tag |-> "RgbInvalidFormat"]
RgbComponentParseError(s) == [tag |-> "RgbComponentParseError", s |-> s]
RgbComponentOutOfRange(v) == [tag |-> "RgbComponentOutOfRange", v |-> v]
Panic == [tag |-> "Panic"]
None == [tag |-> "None"]

ErrorTags ==
    {"InvalidLength", "ComponentParseError", "MissingHashPrefix", "UnsupportedFormat",
     "RgbInvalidFormat", "RgbComponentParseError", "RgbComponentOutOfRange"}

(***************************************************************************)
(* &str primitives used by the code.                                       *)
(***************************************************************************)
\* char::len_utf8
len_utf8(c) == IF c < 128 THEN 1 ELSE IF c < 2048 THEN 2 ELSE IF c < 65536 THEN 3 ELSE 4

\* str::len: the length in BYTES
RECURSIVE len(_)
len(s) == IF s = <<>> THEN 0 ELSE len_utf8(Head(s)) + len(Tail(s))

\* byte offset at which the i-th scalar of s starts (i = Len(s)+1: the end)
ByteOffset(s, i) == len(SubSeq(s, 1, i - 1))

\* str::is_char_boundary
is_char_boundary(s, b) == \E i \in 1..(Len(s) + 1) : ByteOffset(s, i) = b

\* &s[a..b] for byte offsets a <= b that are char boundaries
Slice(s, a, b) ==
    LET i == CHOOSE i \in 1..(Len(s) + 1) : ByteOffset(s, i) = a
        j == CHOOSE j \in 1..(Len(s) + 1) : ByteOffset(s, j) = b
    IN  SubSeq(s, i, j - 1)

\* char::is_whitespace (the Unicode White_Space property)
is_whitespace(c) ==
    \/ c \in 9..13
    \/ c \in {32, 133, 160, 5760, 8232, 8233, 8239, 8287, 12288}
    \/ c \in 8192..8202

RECURSIVE trim_start(_)
trim_start(s) ==
    IF s # <<>> /\ is_whitespace(Head(s)) THEN trim_start(Tail(s)) ELSE s

RECURSIVE trim_end(_)
trim_end(s) ==
    IF s # <<>> /\ is_whitespace(s[Len(s)]) THEN trim_end(SubSeq(s, 1, Len(s) - 1)) ELSE s

\* str::trim
trim(s) == trim_end(trim_start(s))

\* str::to_ascii_lowercase
to_ascii_lowercase(s) == [i \in 1..Len(s) |-> IF s[i] \in 65..90 THEN s[i] + 32 ELSE s[i]]

\* str::starts_with
starts_with(s, p) == Len(s) >= Len(p) /\ SubSeq(s, 1, Len(p)) = p

\* str::find(char): byte offset of the first occurrence, or -1 for None
find(s, c) ==
    IF \E i \in 1..Len(s) : s[i] = c
    THEN ByteOffset(s, CHOOSE i \in 1..Len(s) : s[i] = c /\ \A j \in 1..(i - 1) : s[j] # c)
    ELSE -1

\* str::rfind(char): byte offset of the last occurrence, or -1 for None
rfind(s, c) ==
    IF \E i \in 1..Len(s) : s[i] = c
    THEN ByteOffset(s, CHOOSE i \in 1..Len(s) : s[i] = c /\ \A j \in (i + 1)..Len(s) : s[j] # c)
    ELSE -1

\* str::split(char), collected: always at least one piece
RECURSIVE split(_, _)
split(s, c) ==
    IF \A i \in 1..Len(s) : s[i] # c
    THEN <<s>>
    ELSE LET i == CHOOSE i \in 1..Len(s) : s[i] = c /\ \A j \in 1..(i - 1) : s[j] # c
         IN  <<SubSeq(s, 1, i - 1)>> \o split(SubSeq(s, i + 1, Len(s)), c)

(***************************************************************************)
(* Integer parsing of the standard library, as the code calls it:          *)
(* u8::from_str_radix(_, 16) and str::parse::<i32> (radix 10).             *)
(* A leading '+' is accepted by both; a leading '-' only by the signed     *)
(* type; a sign alone is no number; digits are accumulated left to right   *)
(* with checked arithmetic.                                                *)
(***************************************************************************)
\* char::to_digit(radix), -1 for None
to_digit(c, radix) ==
    LET v == IF c \in 48..57 THEN c - 48
             ELSE IF c \in 97..122 THEN c - 97 + 10
             ELSE IF c \in 65..90 THEN c - 65 + 10
             ELSE 36
    IN  IF v < radix THEN v ELSE -1

IntOk(v) == [ok |-> TRUE, v |-> v]
IntErr(kind) == [ok |-> FALSE, kind |-> kind]

\* positive accumulation: acc * radix + digit, checked against hi
RECURSIVE AccPos(_, _, _, _)
AccPos(digits, radix, acc, hi) ==
    IF digits = <<>> THEN IntOk(acc)
    ELSE LET d == to_digit(Head(digits), radix)
         IN  IF d < 0 THEN IntErr("InvalidDigit")
             ELSE IF acc > hi \div radix \/ acc * radix > hi - d THEN IntErr("PosOverflow")
             ELSE AccPos(Tail(digits), radix, acc * radix + d, hi)

\* negative accumulation: acc * radix - digit, checked against lo
RECURSIVE AccNeg(_, _, _, _)
AccNeg(digits, radix, acc, lo) ==
    IF digits = <<>> THEN IntOk(acc)
    ELSE LET d == to_digit(Head(digits), radix)
             least == (lo \div radix) + (IF lo % radix = 0 THEN 0 ELSE 1)
         IN  IF d < 0 THEN IntErr("InvalidDigit")
             ELSE IF acc < least \/ acc * radix < lo + d THEN IntErr("NegOverflow")
             ELSE AccNeg(Tail(digits), radix, acc * radix - d, lo)

\* the type is signed iff lo < 0
from_str_radix(src, radix, lo, hi) ==
    IF src = <<>> THEN IntErr("Empty")
    ELSE IF Len(src) = 1 /\ src[1] \in {43, 45} THEN IntErr("InvalidDigit")
    ELSE IF src[1] = 43 THEN AccPos(Tail(src), radix, 0, hi)
    ELSE IF src[1] = 45 /\ lo < 0 THEN AccNeg(Tail(src), radix, 0, lo)
    ELSE AccPos(src, radix, 0, hi)

U8Max == 255
I32Max == 2147483647
I32Min == -I32Max - 1

(***************************************************************************)
(* String literals of the code, as code points.                            *)
(***************************************************************************)
\* "black"
Str_black == <<98, 108, 97, 99, 107>>
\* "white"
Str_white == <<119, 104, 105, 116, 101>>
\* "red"
Str_red == <<114, 101, 100>>
\* "green"
Str_green == <<103, 114, 101, 101, 110>>
\* "blue"
Str_blue == <<98, 108, 117, 101>>
\* "yellow"
Str_yellow == <<121, 101, 108, 108, 111, 119>>
\* "cyan"
Str_cyan == <<99, 121, 97, 110>>
\* "magenta"
Str_magenta == <<109, 97, 103, 101, 110, 116, 97>>
\* "gray"
Str_gray == <<103, 114, 97, 121>>
\* "grey"
Str_grey == <<103, 114, 101, 121>>
\* "rebeccapurple"
Str_rebeccapurple == <<114, 101, 98, 101, 99, 99, 97, 112, 117, 114, 112, 108, 101>>
\* "rgb("
Str_rgb_open == <<114, 103, 98, 40>>
\* "hsl("
Str_hsl_open == <<104, 115, 108, 40>>

(***************************************************************************)
(* parse_named_color: the fixed table, matched on the ASCII-lowercased     *)
(* name; None when the name is not in the table.                           *)
(***************************************************************************)
\* the lookup without lowercasing
parse_named_color_case_sensitive(name) ==
    LET lower == name
    IN  IF lower = Str_black THEN Color(0, 0, 0)
        ELSE IF lower = Str_white THEN Color(255, 255, 255)
        ELSE IF lower = Str_red THEN Color(255, 0, 0)
        ELSE IF lower = Str_green THEN Color(0, 128, 0)
        ELSE IF lower = Str_blue THEN Color(0, 0, 255)
        ELSE IF lower = Str_yellow THEN Color(255, 255, 0)
        ELSE IF lower = Str_cyan THEN Color(0, 255, 255)
        ELSE IF lower = Str_magenta THEN Color(255, 0, 255)
        ELSE IF lower = Str_gray THEN Color(128, 128, 128)
        ELSE IF lower = Str_grey THEN Color(128, 128, 128)
        ELSE IF lower = Str_rebeccapurple THEN Color(102, 51, 153)
        ELSE None

parse_named_color(name) ==
    LET lower == to_ascii_lowercase(name)
    IN  IF lower = Str_black THEN Color(0, 0, 0)
        ELSE IF lower = Str_white THEN Color(255, 255, 255)
        ELSE IF lower = Str_red THEN Color(255, 0, 0)
        ELSE IF lower = Str_green THEN Color(0, 128, 0)
        ELSE IF lower = Str_blue THEN Color(0, 0, 255)
        ELSE IF lower = Str_yellow THEN Color(255, 255, 0)
        ELSE IF lower = Str_cyan THEN Color(0, 255, 255)
        ELSE IF lower = Str_magenta THEN Color(255, 0, 255)
        ELSE IF lower = Str_gray THEN Color(128, 128, 128)
        ELSE IF lower = Str_grey THEN Color(128, 128, 128)
        ELSE IF lower = Str_rebeccapurple THEN Color(102, 51, 153)
        ELSE None

(***************************************************************************)
(* parse_component: u8::from_str_radix(component, 16); an error carries    *)
(* the component and the ParseIntError kind.                               *)
(***************************************************************************)
parse_component(component) ==
    LET r == from_str_radix(component, 16, 0, U8Max)
    IN  IF r.ok THEN r ELSE [ok |-> FALSE, err |-> ComponentParseError(component, r.kind)]

(***************************************************************************)
(* The hex branch of parse_color (hex_str is the text after '#').          *)
(* hex_str.len() is the byte length.  With 3 bytes, three scalars are      *)
(* taken with next().unwrap(): fewer than three scalars panics.  With 6    *)
(* bytes, the pairs are the byte slices [0..2], [2..4], [4..6], taken and  *)
(* parsed in turn: a slice end inside a scalar panics, unless an earlier   *)
(* pair already returned its error.                                        *)
(***************************************************************************)
\* hex3 without the duplication of each digit
hex3_single_digit(hex_str) ==
    IF Len(hex_str) < 3 THEN Panic
    ELSE LET r == parse_component(<<hex_str[1]>>)
             g == parse_component(<<hex_str[2]>>)
             b == parse_component(<<hex_str[3]>>)
         IN  IF ~r.ok THEN r.err
             ELSE IF ~g.ok THEN g.err
             ELSE IF ~b.ok THEN b.err
             ELSE Color(r.v, g.v, b.v)

hex3(hex_str) ==
    IF Len(hex_str) < 3 THEN Panic
    ELSE LET r == parse_component(<<hex_str[1], hex_str[1]>>)
             g == parse_component(<<hex_str[2], hex_str[2]>>)
             b == parse_component(<<hex_str[3], hex_str[3]>>)
         IN  IF ~r.ok THEN r.err
             ELSE IF ~g.ok THEN g.err
             ELSE IF ~b.ok THEN b.err
             ELSE Color(r.v, g.v, b.v)

\* the pairs from byte offset a on, with the channels parsed so far
RECURSIVE hex6_from(_, _, _)
hex6_from(hex_str, a, done) ==
    IF a = 6 THEN Color(done[1], done[2], done[3])
    ELSE IF ~is_char_boundary(hex_str, a) \/ ~is_char_boundary(hex_str, a + 2) THEN Panic
    ELSE LET c == parse_component(Slice(hex_str, a, a + 2))
         IN  IF ~c.ok THEN c.err ELSE hex6_from(hex_str, a + 2, Append(done, c.v))

hex6(hex_str) == hex6_from(hex_str, 0, <<>>)

parse_hex(hex_str) ==
    IF len(hex_str) = 3 THEN hex3(hex_str)
    ELSE IF len(hex_str) = 6 THEN hex6(hex_str)
    ELSE InvalidLength(len(hex_str))

(***************************************************************************)
(* parse_rgb.  open and close are byte offsets; parts are the trimmed      *)
(* pieces of the text between them; each is parsed as i32 and then range   *)
(* checked, left to right, the first failure returning.                    *)
(***************************************************************************)
\* the range check made after the narrowing to u8
RECURSIVE rgb_components_narrow_first(_, _)
rgb_components_narrow_first(parts, nums) ==
    IF parts = <<>> THEN Color(nums[1], nums[2], nums[3])
    ELSE LET p == Head(parts)
             parsed == from_str_radix(p, 10, I32Min, I32Max)
         IN  IF ~parsed.ok THEN RgbComponentParseError(p)
             ELSE rgb_components_narrow_first(Tail(parts), Append(nums, parsed.v % 256))

RECURSIVE rgb_components(_, _)
rgb_components(parts, nums) ==
    IF parts = <<>> THEN Color(nums[1], nums[2], nums[3])
    ELSE LET p == Head(parts)
             parsed == from_str_radix(p, 10, I32Min, I32Max)
         IN  IF ~parsed.ok THEN RgbComponentParseError(p)
             ELSE IF ~(parsed.v \in 0..255) THEN RgbComponentOutOfRange(parsed.v)
             ELSE rgb_components(Tail(parts), Append(nums, parsed.v))

\* the pieces left untrimmed
untrimmed_parts(inner) == split(inner, 44)

\* inner.split(',').map(|s| s.trim()).collect()
trimmed_parts(inner) == LET raw == split(inner, 44) IN [i \in 1..Len(raw) |-> trim(raw[i])]

parse_rgb(s) ==
    LET open == find(s, 40)
        close == rfind(s, 41)
    IN  IF open < 0 THEN RgbInvalidFormat
        ELSE IF close < 0 THEN RgbInvalidFormat
        ELSE IF close <= open + 1 THEN RgbInvalidFormat
        ELSE LET parts == trimmed_parts(Slice(s, open + 1, close))
             IN  IF Len(parts) # 3 THEN RgbInvalidFormat
                 ELSE rgb_components(parts, <<>>)

(***************************************************************************)
(* f32 arithmetic (IEEE 754 binary32, round to nearest, ties to even).     *)
(* A value is [cls, neg, m, e].  cls = "fin" stands for                    *)
(* (-1)^neg * m * 2^e, where a normal number has 2^23 <= m < 2^24 and      *)
(* -149 <= e <= 104, a subnormal has 0 < m < 2^23 and e = -149, and a zero *)
(* has m = 0, e = 0 and keeps its sign.  cls = "inf" is the infinity of    *)
(* sign neg and cls = "nan" is a NaN (m = e = 0 in both, neg of a NaN is   *)
(* FALSE).  Every intermediate fits 31 bits.                               *)
(***************************************************************************)
TwoP12 == 4096
TwoP23 == 8388608
TwoP24 == 16777216
F32MinExp == -149
F32MaxExp == 104

Fin(neg, m, e) == [cls |-> "fin", neg |-> neg, m |-> m, e |-> e]
Zero(neg) == Fin(neg, 0, 0)
FZero == Zero(FALSE)
Inf(neg) == [cls |-> "inf", neg |-> neg, m |-> 0, e |-> 0]
NaN == [cls |-> "nan", neg |-> FALSE, m |-> 0, e |-> 0]

\* what lies below the last kept bit: 0 nothing, 1 less than half of it, 2 half, 3 more
RemOf(r, d) == IF r = 0 THEN 0 ELSE IF 2 * r < d THEN 1 ELSE IF 2 * r = d THEN 2 ELSE 3

\* the same after one more bit has been dropped
ShiftRem(bit, rem) ==
    IF bit = 0 THEN (IF rem = 0 THEN 0 ELSE 1) ELSE (IF rem = 0 THEN 2 ELSE 3)

\* ties-to-even on q < 2^24 at exponent e >= -149, then overflow to infinity
Finish(neg, q, rem, e) ==
    LET up == rem = 3 \/ (rem = 2 /\ q % 2 = 1)
        q1 == IF up THEN q + 1 ELSE q
        m == IF q1 = TwoP24 THEN TwoP23 ELSE q1
        e1 == IF q1 = TwoP24 THEN e + 1 ELSE e
    IN  IF m = 0 THEN Zero(neg)
        ELSE IF e1 > F32MaxExp THEN Inf(neg)
        ELSE Fin(neg, m, e1)

\* drop low bits until q has at most 24 bits and the exponent is at least -149
RECURSIVE ShiftRight(_, _, _, _)
ShiftRight(neg, q, rem, e) ==
    IF q < TwoP24 /\ e >= F32MinExp THEN Finish(neg, q, rem, e)
    ELSE IF q = 0 THEN Finish(neg, 0, IF rem = 0 THEN 0 ELSE 1, F32MinExp)
    ELSE ShiftRight(neg, q \div 2, ShiftRem(q % 2, rem), e + 1)

\* bring in the next bits of r/d until q has 24 bits or the exponent is -149
RECURSIVE ShiftLeft(_, _, _, _, _)
ShiftLeft(neg, q, r, d, e) ==
    IF q < TwoP23 /\ e > F32MinExp /\ (q # 0 \/ r # 0)
    THEN LET bit == IF 2 * r >= d THEN 1 ELSE 0
         IN  ShiftLeft(neg, 2 * q + bit, 2 * r - bit * d, d, e - 1)
    ELSE ShiftRight(neg, q, RemOf(r, d), e)

\* the f32 nearest to (-1)^neg * (n/d) * 2^e, for 0 <= n < 2^31 and 0 < d < 2^30
RoundRatio(neg, n, d, e) == ShiftLeft(neg, n \div d, n % d, d, e)

\* an integer literal of the code (360.0, 100.0, 255.0, ...) or an integer value as f32
F32(n) == RoundRatio(n < 0, IF n < 0 THEN -n ELSE n, 1, 0)

\* |x| < |y|, both finite
MagLt(x, y) ==
    IF y.m = 0 THEN FALSE
    ELSE IF x.m = 0 THEN TRUE
    ELSE x.e < y.e \/ (x.e = y.e /\ x.m < y.m)

\* x < y (false when either is a NaN)
F32Lt(x, y) ==
    IF x.cls = "nan" \/ y.cls = "nan" THEN FALSE
    ELSE IF x.cls = "inf" THEN x.neg /\ ~(y.cls = "inf" /\ y.neg)
    ELSE IF y.cls = "inf" THEN ~y.neg
    ELSE IF x.m = 0 /\ y.m = 0 THEN FALSE
    ELSE IF x.m = 0 THEN ~y.neg
    ELSE IF y.m = 0 THEN x.neg
    ELSE IF x.neg # y.neg THEN x.neg
    ELSE IF x.neg THEN MagLt(y, x)
    ELSE MagLt(x, y)

F32Neg(x) == IF x.cls = "nan" THEN x ELSE [x EXCEPT !.neg = ~x.neg]

\* v shifted right by d bits, the bits lost kept as a sticky lowest bit
ShiftSticky(v, d) ==
    IF d > 30 THEN 1
    ELSE LET fl == v \div (2 ^ d)
         IN  IF v % (2 ^ d) # 0 /\ fl % 2 = 0 THEN fl + 1 ELSE fl

\* x + y: three guard bits, the smaller operand aligned with a sticky bit
F32Add(x, y) ==
    IF x.cls = "nan" \/ y.cls = "nan" THEN NaN
    ELSE IF x.cls = "inf" THEN (IF y.cls = "inf" /\ y.neg # x.neg THEN NaN ELSE x)
    ELSE IF y.cls = "inf" THEN y
    ELSE IF x.m = 0 /\ y.m = 0 THEN Zero(x.neg /\ y.neg)
    ELSE IF x.m = 0 THEN y
    ELSE IF y.m = 0 THEN x
    ELSE LET a == IF MagLt(x, y) THEN y ELSE x
             b == IF MagLt(x, y) THEN x ELSE y
             A == a.m * 8
             B == ShiftSticky(b.m * 8, a.e - b.e)
             S == IF a.neg = b.neg THEN A + B ELSE A - B
         IN  IF S = 0 THEN FZero ELSE RoundRatio(a.neg, S, 1, a.e - 3)

F32Sub(x, y) == F32Add(x, F32Neg(y))

\* x * y: the 48-bit product of the mantissas from 12-bit halves
F32Mul(x, y) ==
    IF x.cls = "nan" \/ y.cls = "nan" THEN NaN
    ELSE IF x.cls = "inf" \/ y.cls = "inf"
    THEN (IF (x.cls = "fin" /\ x.m = 0) \/ (y.cls = "fin" /\ y.m = 0) THEN NaN
          ELSE Inf(x.neg # y.neg))
    ELSE IF x.m = 0 \/ y.m = 0 THEN Zero(x.neg # y.neg)
    ELSE LET xh == x.m \div TwoP12
             xl == x.m % TwoP12
             yh == y.m \div TwoP12
             yl == y.m % TwoP12
             mid == xh * yl + xl * yh
             low0 == xl * yl + (mid % TwoP12) * TwoP12
             low == low0 % TwoP24
             high == xh * yh + mid \div TwoP12 + low0 \div TwoP24
             \* product = high * 2^24 + low, with high < 2^24
         IN  ShiftLeft(x.neg # y.neg, high, low, TwoP24, x.e + y.e + 24)

\* x / y
F32Div(x, y) ==
    IF x.cls = "nan" \/ y.cls = "nan" THEN NaN
    ELSE IF x.cls = "inf" THEN (IF y.cls = "inf" THEN NaN ELSE Inf(x.neg # y.neg))
    ELSE IF y.cls = "inf" THEN Zero(x.neg # y.neg)
    ELSE IF y.m = 0 THEN (IF x.m = 0 THEN NaN ELSE Inf(x.neg # y.neg))
    ELSE RoundRatio(x.neg # y.neg, x.m, y.m, x.e - y.e)

\* r doubled n times modulo d (six doublings at a time while they last), r < d < 2^24
RECURSIVE DoubleMod(_, _, _)
DoubleMod(r, d, n) ==
    IF n = 0 THEN r
    ELSE IF n >= 6 THEN DoubleMod((64 * r) % d, d, n - 6)
    ELSE DoubleMod((2 * r) % d, d, n - 1)

\* x % y: the remainder of the truncated division, exact, with the sign of x
F32Rem(x, y) ==
    IF x.cls = "nan" \/ y.cls = "nan" \/ x.cls = "inf" THEN NaN
    ELSE IF y.cls = "inf" THEN x
    ELSE IF y.m = 0 THEN NaN
    ELSE IF MagLt(x, y) THEN x
    ELSE RoundRatio(x.neg, DoubleMod(x.m % y.m, y.m, x.e - y.e), 1, y.e)

\* the hue left as it is
rem_euclid_skipped(x, rhs) == x

\* f32::rem_euclid
rem_euclid(x, rhs) ==
    LET r == F32Rem(x, rhs)
    IN  IF F32Lt(r, FZero) THEN F32Add(r, [rhs EXCEPT !.neg = FALSE]) ELSE r

\* f32::clamp (a NaN stays a NaN)
clamp(x, min, max) == IF F32Lt(x, min) THEN min ELSE IF F32Lt(max, x) THEN max ELSE x

\* f32::round: to the nearest integer, halves away from zero
round(x) ==
    IF x.cls # "fin" \/ x.m = 0 \/ x.e >= 0 THEN x
    ELSE IF x.e <= -25 THEN Zero(x.neg)
    ELSE LET k == -x.e
             ip == x.m \div (2 ^ k)
             frac == x.m % (2 ^ k)
             n == IF frac >= 2 ^ (k - 1) THEN ip + 1 ELSE ip
         IN  RoundRatio(x.neg, n, 1, 0)

\* `as u8`: truncating and saturating, a NaN giving 0
as_u8(x) ==
    IF x.cls = "nan" THEN 0
    ELSE IF x.cls = "inf" THEN (IF x.neg THEN 0 ELSE U8Max)
    ELSE IF x.m = 0 \/ x.neg THEN 0
    ELSE IF x.e >= 0 THEN U8Max
    ELSE IF x.e <= -24 THEN 0
    ELSE LET v == x.m \div (2 ^ (-x.e)) IN IF v > U8Max THEN U8Max ELSE v

(***************************************************************************)
(* str::parse::<f32> (core::num::dec2flt): an optional sign, then either a *)
(* decimal number -- digits with an optional '.', at least one digit, and  *)
(* an optional exponent 'e' or 'E' with an optional sign and at least one  *)
(* digit -- or one of nan, inf, infinity in any case.  The result is the   *)
(* f32 nearest to the decimal value (ties to even), an infinity when the   *)
(* value is beyond the f32 range.  The decimal value is held as sequences  *)
(* of decimal digits, so a literal of any length converts exactly.         *)
(***************************************************************************)
IsDigit(c) == c \in 48..57

\* the length of the longest prefix of s made of ASCII digits
DigitRun(s) ==
    CHOOSE n \in 0..Len(s) :
        /\ \A i \in 1..n : IsDigit(s[i])
        /\ n = Len(s) \/ ~IsDigit(s[n + 1])

\* s without its first n elements
Drop(s, n) == SubSeq(s, n + 1, Len(s))

\* the digit values of a string of ASCII digits
DigitValues(s) == [i \in 1..Len(s) |-> s[i] - 48]

\* the exponent digits accumulated as dec2flt does, saturating above 65536
RECURSIVE ExpValue(_, _)
ExpValue(ds, acc) ==
    IF ds = <<>> THEN acc
    ELSE ExpValue(Tail(ds), IF acc < 65536 THEN 10 * acc + Head(ds) ELSE acc)

\* dec2flt::parse::parse_scientific on what follows the exponent sign: at least
\* one digit and nothing else; [ok, digits, nfrac, exp] is the number parsed
parse_exponent_digits(digits, nf, exp_neg, es) ==
    IF es = <<>> \/ DigitRun(es) # Len(es) THEN [ok |-> FALSE]
    ELSE [ok |-> TRUE, digits |-> DigitValues(digits), nfrac |-> nf,
          exp |-> IF exp_neg THEN -ExpValue(DigitValues(es), 0)
                  ELSE ExpValue(DigitValues(es), 0)]

\* the exponent, after the pos characters of the mantissa whose digits are given
parse_scientific(s, digits, nf, pos) ==
    IF digits = <<>> THEN [ok |-> FALSE]
    ELSE IF pos = Len(s)
    THEN [ok |-> TRUE, digits |-> DigitValues(digits), nfrac |-> nf, exp |-> 0]
    ELSE IF s[pos + 1] \notin {101, 69} THEN [ok |-> FALSE]
    ELSE IF pos + 2 <= Len(s) /\ s[pos + 2] \in {43, 45}
    THEN parse_exponent_digits(digits, nf, s[pos + 2] = 45, Drop(s, pos + 2))
    ELSE parse_exponent_digits(digits, nf, FALSE, Drop(s, pos + 1))

\* the '.' and the nf digits after it, after the ni digits before it
parse_fraction(s, ni, nf) ==
    parse_scientific(s, SubSeq(s, 1, ni) \o SubSeq(s, ni + 2, ni + 1 + nf), nf, ni + 1 + nf)

\* dec2flt::parse::parse_number: the digits before the '.', the '.' with the
\* digits after it, the exponent; together at least one digit, nothing left over
parse_mantissa(s, ni) ==
    IF ni < Len(s) /\ s[ni + 1] = 46 THEN parse_fraction(s, ni, DigitRun(Drop(s, ni + 1)))
    ELSE parse_scientific(s, SubSeq(s, 1, ni), 0, ni)

parse_number(s) == parse_mantissa(s, DigitRun(s))

Str_nan == <<110, 97, 110>>
Str_inf == <<105, 110, 102>>
Str_infinity == <<105, 110, 102, 105, 110, 105, 116, 121>>

\* decimal digits without the leading zeros
StripLeadingZeros(ds) ==
    LET n == CHOOSE n \in 0..Len(ds) :
                 /\ \A i \in 1..n : ds[i] = 0
                 /\ n = Len(ds) \/ ds[n + 1] # 0
    IN  Drop(ds, n)

Zeros(n) == [i \in 1..n |-> 0]

IsZeroDigits(ds) == \A i \in 1..Len(ds) : ds[i] = 0

\* The decimal value is worked on in limbs of four decimal digits and turned
\* into binary limbs of twelve bits.
DecBase == 10000

\* decimal digits, a multiple of four of them, as limbs of base 10^4
Group4(ds) ==
    [i \in 1..(Len(ds) \div 4) |->
        1000 * ds[4 * i - 3] + 100 * ds[4 * i - 2] + 10 * ds[4 * i - 1] + ds[4 * i]]

PadLeft4(ds) == Zeros((4 - (Len(ds) % 4)) % 4) \o ds
PadRight4(ds) == ds \o Zeros((4 - (Len(ds) % 4)) % 4)

\* the decimal integer ls divided by 2^12: the limbs of the quotient and the remainder
RECURSIVE DivLimbs(_, _)
DivLimbs(ls, carry) ==
    IF ls = <<>> THEN [q |-> <<>>, r |-> carry]
    ELSE LET cur == DecBase * carry + Head(ls)
             rest == DivLimbs(Tail(ls), cur % TwoP12)
         IN  [q |-> <<cur \div TwoP12>> \o rest.q, r |-> rest.r]

\* the decimal fraction 0.ls times 2^12: the limbs of the fraction and the integer part
RECURSIVE MulLimbs(_)
MulLimbs(ls) ==
    IF ls = <<>> THEN [d |-> <<>>, c |-> 0]
    ELSE LET rest == MulLimbs(Tail(ls))
             v == TwoP12 * Head(ls) + rest.c
         IN  [d |-> <<v % DecBase>> \o rest.d, c |-> v \div DecBase]

\* the 12-bit limbs of the decimal integer ls, the highest first, none for zero
RECURSIVE IntLimbs(_)
IntLimbs(ls) ==
    IF IsZeroDigits(ls) THEN <<>>
    ELSE LET h == DivLimbs(ls, 0) IN IntLimbs(h.q) \o <<h.r>>

\* the first n 12-bit limbs of the decimal fraction 0.ls, and whether more follows
RECURSIVE FracLimbs(_, _)
FracLimbs(ls, n) ==
    IF n = 0 THEN [b |-> <<>>, sticky |-> ~IsZeroDigits(ls)]
    ELSE LET m == MulLimbs(ls)
             rest == FracLimbs(m.d, n - 1)
         IN  [b |-> <<m.c>> \o rest.b, sticky |-> rest.sticky]

\* 180 fraction bits: the first set bit of a value of at least 10^-46 is among the
\* first 153, and 24 more decide the rounding
FracLimbCount == 15

\* the index of the first limb that is not zero
FirstSet(limbs) == CHOOSE i \in 1..Len(limbs) : limbs[i] # 0 /\ \A j \in 1..(i - 1) : limbs[j] = 0

\* the f32 nearest to the binary number whose limbs are given, ni of them before
\* the binary point, more being set below them when sticky; i0 is its first set
\* limb: two limbs make the quotient, the third and the rest decide the rounding
RoundLimbsAt(neg, limbs, sticky, ni, i0) ==
    ShiftLeft(neg, TwoP12 * limbs[i0] + limbs[i0 + 1],
              2 * limbs[i0 + 2]
                + (IF sticky \/ \E j \in (i0 + 3)..Len(limbs) : limbs[j] # 0 THEN 1 ELSE 0),
              2 * TwoP12, 12 * (ni - i0 - 1))

RoundLimbs(neg, il, fl) == RoundLimbsAt(neg, il \o fl.b, fl.sticky, Len(il), FirstSet(il \o fl.b))

\* the digits of sig before the decimal point, which stands after its first dp digits
IntDigits(sig, dp) ==
    IF dp <= 0 THEN <<>>
    ELSE IF dp >= Len(sig) THEN sig \o Zeros(dp - Len(sig))
    ELSE SubSeq(sig, 1, dp)

\* the digits of sig after the decimal point
FracDigits(sig, dp) ==
    IF dp <= 0 THEN Zeros(-dp) \o sig
    ELSE IF dp >= Len(sig) THEN <<>>
    ELSE SubSeq(sig, dp + 1, Len(sig))

\* the f32 nearest to (-1)^neg * 0.sig * 10^dp, sig starting with a digit that is
\* not zero: a value of 10^39 or more is beyond the f32 range, a value below
\* 10^-46 is below half of the least subnormal
ScaledToF32(neg, sig, dp) ==
    IF sig = <<>> THEN Zero(neg)
    ELSE IF dp > 39 THEN Inf(neg)
    ELSE IF dp < -45 THEN Zero(neg)
    ELSE RoundLimbs(neg, IntLimbs(Group4(PadLeft4(IntDigits(sig, dp)))),
                    FracLimbs(Group4(PadRight4(FracDigits(sig, dp))), FracLimbCount))

SigDigitsToF32(neg, sig, k) == ScaledToF32(neg, sig, Len(sig) + k)

\* the f32 nearest to (-1)^neg * digits * 10^k
DecimalToF32(neg, digits, k) == SigDigitsToF32(neg, StripLeadingZeros(digits), k)

\* the number or the nan / inf / infinity that follows the sign
parse_unsigned(neg, body, num) ==
    IF body = <<>> THEN [ok |-> FALSE]
    ELSE IF num.ok
    THEN [ok |-> TRUE, v |-> DecimalToF32(neg, num.digits, num.exp - num.nfrac)]
    ELSE IF to_ascii_lowercase(body) = Str_nan THEN [ok |-> TRUE, v |-> NaN]
    ELSE IF to_ascii_lowercase(body) \in {Str_inf, Str_infinity}
    THEN [ok |-> TRUE, v |-> Inf(neg)]
    ELSE [ok |-> FALSE]

parse_f32(src) ==
    IF src # <<>> /\ src[1] \in {43, 45}
    THEN parse_unsigned(src[1] = 45, Tail(src), parse_number(Tail(src)))
    ELSE parse_unsigned(FALSE, src, parse_number(src))

\* str::strip_suffix('%'): the rest, or None
strip_suffix_pct(s) ==
    IF s # <<>> /\ s[Len(s)] = 37 THEN [some |-> TRUE, v |-> SubSeq(s, 1, Len(s) - 1)]
    ELSE [some |-> FALSE]

(***************************************************************************)
(* parse_hsl and its inner hue_to_rgb, operation by operation in f32.      *)
(***************************************************************************)
hue_to_rgb(p, q, t0) ==
    LET t1 == IF F32Lt(t0, FZero) THEN F32Add(t0, F32(1)) ELSE t0
        t == IF F32Lt(F32(1), t1) THEN F32Sub(t1, F32(1)) ELSE t1
    IN  IF F32Lt(t, F32Div(F32(1), F32(6)))
        THEN F32Add(p, F32Mul(F32Mul(F32Sub(q, p), F32(6)), t))
        ELSE IF F32Lt(t, F32Div(F32(1), F32(2)))
        THEN q
        ELSE IF F32Lt(t, F32Div(F32(2), F32(3)))
        THEN F32Add(p, F32Mul(F32Mul(F32Sub(q, p), F32Sub(F32Div(F32(2), F32(3)), t)), F32(6)))
        ELSE p

\* (x * 255.0).round().clamp(0.0, 255.0) as u8
channel(x) == as_u8(clamp(round(F32Mul(x, F32(255))), FZero, F32(255)))

hsl_to_rgb(h_deg, s_pct, l_pct) ==
    LET h == F32Div(rem_euclid(h_deg, F32(360)), F32(360))
        s == clamp(F32Div(s_pct, F32(100)), FZero, F32(1))
        l == clamp(F32Div(l_pct, F32(100)), FZero, F32(1))
        q == IF F32Lt(l, F32Div(F32(1), F32(2)))
             THEN F32Mul(l, F32Add(F32(1), s))
             ELSE F32Sub(F32Add(l, s), F32Mul(l, s))
        p == F32Sub(F32Mul(F32(2), l), q)
        third == F32Div(F32(1), F32(3))
        r_f == hue_to_rgb(p, q, F32Add(h, third))
        g_f == hue_to_rgb(p, q, h)
        b_f == hue_to_rgb(p, q, F32Sub(h, third))
    IN  Color(channel(r_f), channel(g_f), channel(b_f))

parse_hsl(s) ==
    LET open == find(s, 40)
        close == rfind(s, 41)
    IN  IF open < 0 \/ close < 0 THEN UnsupportedFormat
        ELSE IF close <= open + 1 THEN UnsupportedFormat
        ELSE LET parts == trimmed_parts(Slice(s, open + 1, close))
             IN  IF Len(parts) # 3 THEN UnsupportedFormat
                 ELSE LET h_deg == parse_f32(parts[1])
                          s_pct_str == strip_suffix_pct(parts[2])
                          l_pct_str == strip_suffix_pct(parts[3])
                      IN  IF ~h_deg.ok \/ ~s_pct_str.some \/ ~l_pct_str.some
                          THEN UnsupportedFormat
                          ELSE LET s_pct == parse_f32(s_pct_str.v)
                                   l_pct == parse_f32(l_pct_str.v)
                               IN  IF ~s_pct.ok \/ ~l_pct.ok THEN UnsupportedFormat
                                   ELSE hsl_to_rgb(h_deg.v, s_pct.v, l_pct.v)

(***************************************************************************)
(* parse_color: trim, then named, hex, rgb, hsl, in that order.            *)
(***************************************************************************)
\* the dispatcher testing the rgb( and hsl( prefixes without lowercasing
parse_color_case_sensitive_prefix(inp) ==
    LET trimmed == trim(inp)
        named == parse_named_color(trimmed)
    IN  IF named # None THEN named
        ELSE IF trimmed # <<>> /\ Head(trimmed) = 35 THEN parse_hex(Tail(trimmed))
        ELSE IF starts_with(trimmed, Str_rgb_open) THEN parse_rgb(trimmed)
        ELSE IF starts_with(trimmed, Str_hsl_open) THEN parse_hsl(trimmed)
        ELSE MissingHashPrefix

parse_color(inp) ==
    LET trimmed == trim(inp)
        named == parse_named_color(trimmed)
    IN  IF named # None THEN named
        ELSE IF trimmed # <<>> /\ Head(trimmed) = 35 THEN parse_hex(Tail(trimmed))
        ELSE IF starts_with(to_ascii_lowercase(trimmed), Str_rgb_open) THEN parse_rgb(trimmed)
        ELSE IF starts_with(to_ascii_lowercase(trimmed), Str_hsl_open) THEN parse_hsl(trimmed)
        ELSE MissingHashPrefix

(***************************************************************************)
(* The inputs: the strings handed to parse_color (the color_str argument   *)
(* and the lines of a file in main.rs, the literals of the tests), drawn   *)
(* from families that cover each branch and each error.                    *)
(***************************************************************************)
\* ' ' and tab
WsChars == {32, 9}

\* the whitespace runs of length 0..MaxPad
Pads == UNION {[1..n -> WsChars] : n \in 0..MaxPad}

RECURSIVE Digits(_)
Digits(n) == IF n < 10 THEN <<48 + n>> ELSE Digits(n \div 10) \o <<48 + (n % 10)>>

\* the decimal rendering of an integer
IntLit(n) == IF n < 0 THEN <<45>> \o Digits(-n) ELSE Digits(n)

Names ==
    {Str_black, Str_white, Str_red, Str_green, Str_blue, Str_yellow, Str_cyan,
     Str_magenta, Str_gray, Str_grey, Str_rebeccapurple}

\* a name in lower case, upper case, capitalised, or with alternating case
Cased(name, mode) ==
    [i \in 1..Len(name) |->
        IF mode = "upper" \/ (mode = "title" /\ i = 1) \/ (mode = "alt" /\ i % 2 = 0)
        THEN name[i] - 32 ELSE name[i]]

NamedInputs ==
    {l \o Cased(n, m) \o r : n \in Names, m \in {"lower", "upper", "title", "alt"},
                             l \in Pads, r \in Pads}

\* near misses of a name: a letter more, a letter less, a space or a '#' inside
NearNameInputs ==
    UNION {{n \o <<115>>, Tail(n), <<35>> \o n, <<Head(n), 32>> \o Tail(n),
            SubSeq(n, 1, Len(n) - 1), n \o <<40>>} : n \in Names}

\* '0' '9' 'a' 'F' 'g' '+' '-' U+00E9 (2 bytes) U+20AC (3 bytes)
HexAlphabet == {48, 57, 97, 70, 103, 43, 45, 233, 8364}

HexEnumBodies == UNION {[1..n -> HexAlphabet] : n \in 0..MaxHexEnum}

\* two-byte pieces (the last is the single scalar U+00E9): "1A" "2b" "3C" "ff" "00" "+f" "g0" "0G" "-1" U+00E9
HexPairs ==
    {<<49, 65>>,
     <<50, 98>>,
     <<51, 67>>,
     <<102, 102>>,
     <<48, 48>>,
     <<43, 102>>,
     <<103, 48>>,
     <<48, 71>>,
     <<45, 49>>,
     <<233>>}

HexPairBodies ==
    {a \o b \o c : a \in HexPairs, b \in HexPairs, c \in HexPairs}
    \cup {<<x>> \o a \o b \o <<y>> : x \in {97, 48}, y \in {97, 48}, a \in HexPairs, b \in HexPairs}
    \cup {a \o b \o c \o <<x>> : a \in {<<49, 65>>, <<233>>}, b \in HexPairs, c \in HexPairs, x \in {48}}

HexInputs ==
    {<<35>> \o b : b \in HexEnumBodies \cup HexPairBodies}
    \cup {l \o <<35>> \o b \o r : l \in Pads, r \in Pads,
                                  b \in {<<70, 65, 48>>, <<49, 50, 51, 52>>, <<>>,
                                         <<49, 65, 50, 66, 51, 71>>}}

\* pieces of an rgb() interior: "0" "26" "255" "256" "-1" "-0" "+7" "007" "2147483647" "2147483648" "-2147483648" "-2147483649" "aa" ""
RgbLits ==
    {<<48>>,
     <<50, 54>>,
     <<50, 53, 53>>,
     <<50, 53, 54>>,
     <<45, 49>>,
     <<45, 48>>,
     <<43, 55>>,
     <<48, 48, 55>>,
     <<50, 49, 52, 55, 52, 56, 51, 54, 52, 55>>,
     <<50, 49, 52, 55, 52, 56, 51, 54, 52, 56>>,
     <<45, 50, 49, 52, 55, 52, 56, 51, 54, 52, 56>>,
     <<45, 50, 49, 52, 55, 52, 56, 51, 54, 52, 57>>,
     <<97, 97>>,
     <<>>}

RgbCompactInputs ==
    {Str_rgb_open \o a \o <<44>> \o b \o <<44>> \o c \o <<41>> :
        a \in RgbLits, b \in RgbLits, c \in RgbLits}

\* rgb(r,g,b) with the whitespace gaps[1..9] before "rgb", between "rgb" and "(",
\* after "(", around each comma, before ")" and after ")"
RgbText(r, g, b, gaps) ==
    gaps[1] \o <<114, 103, 98>> \o gaps[2] \o <<40>> \o gaps[3] \o IntLit(r) \o gaps[4]
    \o <<44>> \o gaps[5] \o IntLit(g) \o gaps[6] \o <<44>> \o gaps[7] \o IntLit(b)
    \o gaps[8] \o <<41>> \o gaps[9]

RgbTriples == {<<26, 43, 60>>, <<0, 0, 0>>, <<255, 170, 0>>}

\* one and the same non-empty run of whitespace at each position of a set of positions
RgbSpacedInputs ==
    {RgbText(t[1], t[2], t[3], [i \in 1..9 |-> IF i \in at THEN pad ELSE <<>>]) :
        t \in RgbTriples, at \in SUBSET (1..9), pad \in Pads \ {<<>>}}

\* beginnings: "rgb(" "RGB(" "Rgb(" "rgb (" "rgb" "rgb[" "rgba("
RgbHeads ==
    {<<114, 103, 98, 40>>,
     <<82, 71, 66, 40>>,
     <<82, 103, 98, 40>>,
     <<114, 103, 98, 32, 40>>,
     <<114, 103, 98>>,
     <<114, 103, 98, 91>>,
     <<114, 103, 98, 97, 40>>}
\* interiors: "" "1,2" "1,2,3" "1,2,3,4" ",," "1,,3" "1;2;3" "(1,2,3)" "1,2,3)"
RgbInners ==
    {<<>>,
     <<49, 44, 50>>,
     <<49, 44, 50, 44, 51>>,
     <<49, 44, 50, 44, 51, 44, 52>>,
     <<44, 44>>,
     <<49, 44, 44, 51>>,
     <<49, 59, 50, 59, 51>>,
     <<40, 49, 44, 50, 44, 51, 41>>,
     <<49, 44, 50, 44, 51, 41>>}
\* ends: ")" "" ")x" "))" ") )" ");" ")rgb(4,5,6)"
RgbTails ==
    {<<41>>,
     <<>>,
     <<41, 120>>,
     <<41, 41>>,
     <<41, 32, 41>>,
     <<41, 59>>,
     <<41, 114, 103, 98, 40, 52, 44, 53, 44, 54, 41>>}

RgbShapeInputs == {h \o i \o e : h \in RgbHeads, i \in RgbInners, e \in RgbTails}

HueBases == {0, 1, 2, 29, 30, 59, 60, 61, 90, 119, 120, 121, 150, 179, 180, 181,
             210, 239, 240, 241, 270, 299, 300, 301, 330, 358, 359}

\* hues whose shift by a whole turn crosses 2^24, where f32 stops holding every integer
BigHues == {16776721, 16777081, 16777215, 16777216, 16777217, 16777441, 33554433,
            -16777081, -16777441}

Turns == (-MaxTurns)..MaxTurns

HslText(h, s, l) == Str_hsl_open \o h \o <<44>> \o s \o <<37, 44>> \o l \o <<37, 41>>

HslHueInputs ==
    {HslText(IntLit(h + 360 * k), IntLit(s), IntLit(l)) :
        h \in HueBases, k \in Turns, s \in {0, 50, 100}, l \in {0, 25, 50, 100}}
    \cup {HslText(IntLit(h), IntLit(100), IntLit(50)) : h \in BigHues}

\* pieces of an hsl() interior, without the %: "0" "120" "-30" "7.5" ".5" "1." "100" "150" "x" "" "1.2.3" "-"
HslLits ==
    {<<48>>,
     <<49, 50, 48>>,
     <<45, 51, 48>>,
     <<55, 46, 53>>,
     <<46, 53>>,
     <<49, 46>>,
     <<49, 48, 48>>,
     <<49, 53, 48>>,
     <<120>>,
     <<>>,
     <<49, 46, 50, 46, 51>>,
     <<45>>}

HslShapeInputs ==
    {HslText(h, s, l) : h \in HslLits, s \in HslLits, l \in HslLits}
    \cup {l \o <<72, 83, 76, 40, 32>> \o IntLit(h) \o <<32, 44, 32, 49, 48, 48, 37, 32, 44>>
            \o <<53, 48, 37, 32, 41>> \o r : h \in {0, 120, 240}, l \in Pads, r \in Pads}

\* literals str::parse::<f32> treats beyond plain decimals -- exponents, nan and
\* inf spellings, long digit strings, the ends of the f32 range -- and near misses:
\* "1e2" "1E2" "1e-2" ".5e1" "1.e1" "1e+2" "1e" "1e+" "e5" ".e1" "1e2.5"
\* "nan" "NaN" "-nan" "inf" "-inf" "+Inf" "infinity" "-INFINITY" "infinit"
\* "2147483648" "123456789012345678901234567890" "0.0000000001"
\* "3.4028235e38" "3.4028236e38" "1e39" "1e-45" "7e-46" "1e-46" "1e-40"
\* "-1e-40" "-0" "1e400" "1e-400" "16777217" "1_0" "0x10" "4e9" "+" "50"
HslWideLits ==
    {<<49, 101, 50>>,
     <<49, 69, 50>>,
     <<49, 101, 45, 50>>,
     <<46, 53, 101, 49>>,
     <<49, 46, 101, 49>>,
     <<49, 101, 43, 50>>,
     <<49, 101>>,
     <<49, 101, 43>>,
     <<101, 53>>,
     <<46, 101, 49>>,
     <<49, 101, 50, 46, 53>>,
     <<110, 97, 110>>,
     <<78, 97, 78>>,
     <<45, 110, 97, 110>>,
     <<105, 110, 102>>,
     <<45, 105, 110, 102>>,
     <<43, 73, 110, 102>>,
     <<105, 110, 102, 105, 110, 105, 116, 121>>,
     <<45, 73, 78, 70, 73, 78, 73, 84, 89>>,
     <<105, 110, 102, 105, 110, 105, 116>>,
     <<50, 49, 52, 55, 52, 56, 51, 54, 52, 56>>,
     <<49, 50, 51, 52, 53, 54, 55, 56, 57, 48, 49, 50, 51, 52, 53, 54, 55, 56, 57, 48, 49, 50, 51, 52, 53, 54, 55, 56, 57, 48>>,
     <<48, 46, 48, 48, 48, 48, 48, 48, 48, 48, 48, 49>>,
     <<51, 46, 52, 48, 50, 56, 50, 51, 53, 101, 51, 56>>,
     <<51, 46, 52, 48, 50, 56, 50, 51, 54, 101, 51, 56>>,
     <<49, 101, 51, 57>>,
     <<49, 101, 45, 52, 53>>,
     <<55, 101, 45, 52, 54>>,
     <<49, 101, 45, 52, 54>>,
     <<49, 101, 45, 52, 48>>,
     <<45, 49, 101, 45, 52, 48>>,
     <<45, 48>>,
     <<49, 101, 52, 48, 48>>,
     <<49, 101, 45, 52, 48, 48>>,
     <<49, 54, 55, 55, 55, 50, 49, 55>>,
     <<49, 95, 48>>,
     <<48, 120, 49, 48>>,
     <<52, 101, 57>>,
     <<43>>,
     <<53, 48>>}

HslWideInputs ==
    {HslText(h, <<49, 48, 48>>, <<53, 48>>) : h \in HslWideLits}
    \cup {HslText(<<50, 49, 48>>, sat, l) : sat \in HslWideLits, l \in HslWideLits}

\* malformed hsl(): "hsl(" "hsl()" "hsl(0,100%,50%" "hsl(0,100,50%)" "hsl(0,100%,50)" "hsl(0,100%)" "hsl(0,100%,50%,1)" "hsl (0,100%,50%)" "hsl(0,100%,50%)x" "hsl(0,100 %,50%)" "hsla(0,100%,50%)"
HslBrokenInputs ==
    {<<104, 115, 108, 40>>,
     <<104, 115, 108, 40, 41>>,
     <<104, 115, 108, 40, 48, 44, 49, 48, 48, 37, 44, 53, 48, 37>>,
     <<104, 115, 108, 40, 48, 44, 49, 48, 48, 44, 53, 48, 37, 41>>,
     <<104, 115, 108, 40, 48, 44, 49, 48, 48, 37, 44, 53, 48, 41>>,
     <<104, 115, 108, 40, 48, 44, 49, 48, 48, 37, 41>>,
     <<104, 115, 108, 40, 48, 44, 49, 48, 48, 37, 44, 53, 48, 37, 44, 49, 41>>,
     <<104, 115, 108, 32, 40, 48, 44, 49, 48, 48, 37, 44, 53, 48, 37, 41>>,
     <<104, 115, 108, 40, 48, 44, 49, 48, 48, 37, 44, 53, 48, 37, 41, 120>>,
     <<104, 115, 108, 40, 48, 44, 49, 48, 48, 32, 37, 44, 53, 48, 37, 41>>,
     <<104, 115, 108, 97, 40, 48, 44, 49, 48, 48, 37, 44, 53, 48, 37, 41>>}
\* none of the four shapes: "" "1A2B3C" "notacolor" "rgb" "hsl" "FA0" "1,2,3" "(1,2,3)" "transparent" "0x1A2B3C" " " "rg b(1,2,3)"
OtherInputs ==
    {<<>>,
     <<49, 65, 50, 66, 51, 67>>,
     <<110, 111, 116, 97, 99, 111, 108, 111, 114>>,
     <<114, 103, 98>>,
     <<104, 115, 108>>,
     <<70, 65, 48>>,
     <<49, 44, 50, 44, 51>>,
     <<40, 49, 44, 50, 44, 51, 41>>,
     <<116, 114, 97, 110, 115, 112, 97, 114, 101, 110, 116>>,
     <<48, 120, 49, 65, 50, 66, 51, 67>>,
     <<32>>,
     <<114, 103, 32, 98, 40, 49, 44, 50, 44, 51, 41>>}

Inputs ==
    NamedInputs \cup NearNameInputs \cup HexInputs \cup RgbCompactInputs \cup RgbSpacedInputs
    \cup RgbShapeInputs \cup HslHueInputs \cup HslShapeInputs \cup HslWideInputs
    \cup HslBrokenInputs
    \cup OtherInputs

(***************************************************************************)
(* The state machine: one call of parse_color on one input.                *)
(***************************************************************************)
Init ==
    /\ input \in Inputs
    /\ pc = "call"
    /\ outcome = None

ParseColor ==
    /\ pc = "call"
    /\ outcome' = parse_color(input)
    /\ pc' = "done"
    /\ UNCHANGED input

Next == ParseColor

Spec == Init /\ [][Next]_vars

(***************************************************************************)
(* Vocabulary of the properties, stated from the specification's grammar   *)
(* and tables rather than through the parser's own operators.              *)
(***************************************************************************)
Done == pc = "done"

\* the input as the dispatcher sees it
Trimmed == trim(input)
Lowered == to_ascii_lowercase(Trimmed)

HasHash == Trimmed # <<>> /\ Trimmed[1] = 35
HasRgbHead == starts_with(Lowered, Str_rgb_open)
HasHslHead == starts_with(Lowered, Str_hsl_open)

\* the text after '#'
HexBody == Tail(Trimmed)

\* value of a character of [0-9A-Fa-f], -1 for any other character
HexValue(c) ==
    IF c \in 48..57 THEN c - 48
    ELSE IF c \in 97..102 THEN c - 87
    ELSE IF c \in 65..70 THEN c - 55
    ELSE -1

IsHexDigit(c) == HexValue(c) >= 0

\* the three effective 2-character pairs of a body of 3 or 6 characters
EffectivePairs(body) ==
    IF Len(body) = 3 THEN [i \in 1..3 |-> <<body[i], body[i]>>]
    ELSE [i \in 1..3 |-> <<body[2 * i - 1], body[2 * i]>>]

PairIsHex(pair) == IsHexDigit(pair[1]) /\ IsHexDigit(pair[2])
PairValue(pair) == 16 * HexValue(pair[1]) + HexValue(pair[2])

\* the CSS values of the named colors
NamedTriple(lo) ==
    CASE lo = Str_black -> <<0, 0, 0>>
      [] lo = Str_white -> <<255, 255, 255>>
      [] lo = Str_red -> <<255, 0, 0>>
      [] lo = Str_green -> <<0, 128, 0>>
      [] lo = Str_blue -> <<0, 0, 255>>
      [] lo = Str_yellow -> <<255, 255, 0>>
      [] lo = Str_cyan -> <<0, 255, 255>>
      [] lo = Str_magenta -> <<255, 0, 255>>
      [] lo = Str_gray -> <<128, 128, 128>>
      [] lo = Str_grey -> <<128, 128, 128>>
      [] lo = Str_rebeccapurple -> <<102, 51, 153>>

AllDigits(s) == s # <<>> /\ \A i \in 1..Len(s) : s[i] \in 48..57

\* an optional sign followed by one or more decimal digits
IsSignedIntLit(p) ==
    IF p # <<>> /\ p[1] \in {43, 45} THEN AllDigits(Tail(p)) ELSE AllDigits(p)

\* Int of the grammar: an optional '-' followed by one or more decimal digits
IsGrammarInt(p) == IF p # <<>> /\ p[1] = 45 THEN AllDigits(Tail(p)) ELSE AllDigits(p)

LitNegative(p) == p[1] = 45

RECURSIVE StripZeros(_)
StripZeros(d) == IF Len(d) > 1 /\ d[1] = 48 THEN StripZeros(Tail(d)) ELSE d

\* the digits of a literal without sign and leading zeros
LitDigits(p) == StripZeros(IF p[1] \in {43, 45} THEN Tail(p) ELSE p)

\* a <= b for digit strings of the same length
RECURSIVE DigitsLeq(_, _)
DigitsLeq(a, b) ==
    IF a = <<>> THEN TRUE
    ELSE IF a[1] # b[1] THEN a[1] < b[1]
    ELSE DigitsLeq(Tail(a), Tail(b))

\* "2147483647" and "2147483648"
Str_i32_max == <<50, 49, 52, 55, 52, 56, 51, 54, 52, 55>>
Str_i32_min_digits == <<50, 49, 52, 55, 52, 56, 51, 54, 52, 56>>

\* the literal denotes an integer of -2^31 .. 2^31-1
FitsI32(p) ==
    LET d == LitDigits(p)
    IN  \/ Len(d) < 10
        \/ Len(d) = 10 /\ DigitsLeq(d, IF LitNegative(p) THEN Str_i32_min_digits ELSE Str_i32_max)

\* minus the value of a digit string (so that 2^31 is reachable)
RECURSIVE NegValue(_, _)
NegValue(d, acc) == IF d = <<>> THEN acc ELSE NegValue(Tail(d), 10 * acc - (d[1] - 48))

\* the integer a literal that FitsI32 denotes
LitValue(p) ==
    LET nv == NegValue(LitDigits(p), 0)
    IN  IF LitNegative(p) THEN nv ELSE -nv

\* the literal denotes an integer of 0..255
InByteRange(p) == IsSignedIntLit(p) /\ FitsI32(p) /\ LitValue(p) \in 0..255

NotWs(c) == ~is_whitespace(c)

\* the input with all its whitespace removed
Squeeze(s) == SelectSeq(s, NotWs)

IsLetter(c) == c \in 65..90 \/ c \in 97..122

\* whitespace occurs only between tokens: never between two digits or two letters
WsOnlyBetweenTokens(s) ==
    \A i \in 1..Len(s) : \A j \in (i + 2)..Len(s) :
        (/\ NotWs(s[i]) /\ NotWs(s[j])
         /\ \A m \in (i + 1)..(j - 1) : is_whitespace(s[m]))
        => /\ ~(s[i] \in 48..57 /\ s[j] \in 48..57)
           /\ ~(IsLetter(s[i]) /\ IsLetter(s[j]))

\* the comma-separated pieces of "xxx(" ... ")"
CompactPieces(c) == split(SubSeq(c, 5, Len(c) - 1), 44)

\* c is rgb(r,g,b), compact, with r, g, b unsigned decimals of 0..255
IsCompactRgb(c) ==
    /\ starts_with(c, Str_rgb_open)
    /\ c[Len(c)] = 41
    /\ Len(CompactPieces(c)) = 3
    /\ \A i \in 1..3 : AllDigits(CompactPieces(c)[i]) /\ InByteRange(CompactPieces(c)[i])

CompactColor(c) ==
    Color(LitValue(CompactPieces(c)[1]), LitValue(CompactPieces(c)[2]),
          LitValue(CompactPieces(c)[3]))

\* whitespace between "rgb" and "("
GapAfterKeyword == Len(Trimmed) >= 4 /\ is_whitespace(Trimmed[4])

\* the rgb branch has an interior with exactly three pieces
RgbThreePieces ==
    /\ HasRgbHead
    /\ rfind(Trimmed, 41) > find(Trimmed, 40) + 1
    /\ Len(trimmed_parts(Slice(Trimmed, find(Trimmed, 40) + 1, rfind(Trimmed, 41)))) = 3

RgbPieces == trimmed_parts(Slice(Trimmed, find(Trimmed, 40) + 1, rfind(Trimmed, 41)))

\* the leftmost piece that is not an integer of 0..255 (0 when there is none)
FirstBadPiece ==
    IF \A i \in 1..3 : InByteRange(RgbPieces[i]) THEN 0
    ELSE CHOOSE i \in 1..3 : ~InByteRange(RgbPieces[i]) /\ \A j \in 1..(i - 1) : InByteRange(RgbPieces[j])

\* the Rgb production: "rgb" "(" Int "," Int "," Int ")", whitespace between tokens only
MatchesRgbProduction(s) ==
    LET c == to_ascii_lowercase(Squeeze(s))
    IN  /\ WsOnlyBetweenTokens(s)
        /\ starts_with(c, Str_rgb_open)
        /\ c[Len(c)] = 41
        /\ Len(CompactPieces(c)) = 3
        /\ \A i \in 1..3 : IsGrammarInt(CompactPieces(c)[i])

(***************************************************************************)
(* The properties.                                                         *)
(***************************************************************************)

\* C1: parse_color is total: every call returns Ok(Color) or one of the seven
\* ColorParseError variants, and never ends in a panic.
C1_NeverPanics == Done => outcome.tag \in {"Ok"} \cup ErrorTags

\* C2: the result is MissingHashPrefix exactly when the trimmed input is no known
\* name (case-insensitively), does not start with '#', and its lowercased form
\* starts with neither "rgb(" nor "hsl(".
C2_MissingHashPrefixIff ==
    Done => (outcome = MissingHashPrefix
             <=> (Lowered \notin Names /\ ~HasHash /\ ~HasRgbHead /\ ~HasHslHead))

\* C2: "1A2B3C" ended in MissingHashPrefix
C2_Witness == Done /\ input = <<49, 65, 50, 66, 51, 67>> /\ outcome = MissingHashPrefix

\* C3: for '#' + body with a body of length 3 or 6, if one of the three
\* effective pairs holds a character outside [0-9A-Fa-f], the result is
\* ComponentParseError carrying the leftmost such pair.  Stated for bodies of
\* ASCII characters, whose length is the same counted in characters or in bytes.
C3_NonHexPairRejected ==
    (Done /\ HasHash /\ Len(HexBody) \in {3, 6}
          /\ \A n \in 1..Len(HexBody) : HexBody[n] < 128
          /\ \E i \in 1..3 : ~PairIsHex(EffectivePairs(HexBody)[i]))
    => LET i == CHOOSE i \in 1..3 :
                    /\ ~PairIsHex(EffectivePairs(HexBody)[i])
                    /\ \A j \in 1..(i - 1) : PairIsHex(EffectivePairs(HexBody)[j])
       IN  /\ outcome.tag = "ComponentParseError"
           /\ outcome.s = EffectivePairs(HexBody)[i]

\* C4: for a trimmed input '#' + body whose body has n characters, n not 3 and
\* not 6, the result is InvalidLength(n), whatever the characters are.
C4_InvalidLengthInChars ==
    (Done /\ HasHash /\ Len(HexBody) \notin {3, 6}) => outcome = InvalidLength(Len(HexBody))

\* C5: "#xyz" of hex digits gives the Color of "#xxyyzz", with each channel
\* 17 times the digit's value; "#" + 6 hex digits gives, per channel r, g, b, the
\* value of the pair at offsets 0, 2, 4.
C5_HexChannels ==
    (Done /\ HasHash /\ \A i \in 1..Len(HexBody) : IsHexDigit(HexBody[i]))
    => /\ Len(HexBody) = 3 =>
            /\ outcome = Color(17 * HexValue(HexBody[1]), 17 * HexValue(HexBody[2]),
                               17 * HexValue(HexBody[3]))
            /\ outcome = parse_color(<<35, HexBody[1], HexBody[1], HexBody[2], HexBody[2],
                                       HexBody[3], HexBody[3]>>)
       /\ Len(HexBody) = 6 =>
            outcome = Color(PairValue(SubSeq(HexBody, 1, 2)), PairValue(SubSeq(HexBody, 3, 4)),
                            PairValue(SubSeq(HexBody, 5, 6)))

\* C5: "#Fa0" gave (255, 170, 0)
C5_Witness == Done /\ input = <<35, 70, 97, 48>> /\ outcome = Color(255, 170, 0)

\* C9: each of the 11 names, in any mix of case and with any surrounding
\* whitespace, gives its table triple; a trimmed string that is not one of the
\* names is not resolved by the named lookup: the lookup finds nothing, and a
\* color can only come from the '#', "rgb(" or "hsl(" branch.
C9_NamedLookup ==
    Done => /\ Lowered \in Names =>
                outcome = Color(NamedTriple(Lowered)[1], NamedTriple(Lowered)[2],
                                NamedTriple(Lowered)[3])
            /\ Lowered \notin Names =>
                /\ parse_named_color(Trimmed) = None
                /\ outcome.tag = "Ok" => (HasHash \/ HasRgbHead \/ HasHslHead)

\* C9: " GREEN", padded and in upper case, gave (0, 128, 0)
C9_Witness == Done /\ input = <<32, 71, 82, 69, 69, 78>> /\ outcome = Color(0, 128, 0)

\* C6 as claimed: in an rgb() with exactly three pieces whose leftmost piece that
\* is not an integer of 0..255 is a signed decimal literal v, of any magnitude,
\* the result is RgbComponentOutOfRange(v), never RgbComponentParseError.
C6_OutOfRangeAnyMagnitude ==
    (Done /\ RgbThreePieces /\ FirstBadPiece # 0 /\ IsSignedIntLit(RgbPieces[FirstBadPiece]))
    => /\ outcome.tag = "RgbComponentOutOfRange"
       /\ FitsI32(RgbPieces[FirstBadPiece]) => outcome.v = LitValue(RgbPieces[FirstBadPiece])

\* C6 amended: when that literal v fits a signed 32-bit integer the result is
\* RgbComponentOutOfRange(v), v carried exactly and never wrapped into a channel;
\* when it does not, the result is RgbComponentParseError carrying the piece.
C6_OutOfRangeWithinI32 ==
    (Done /\ RgbThreePieces /\ FirstBadPiece # 0 /\ IsSignedIntLit(RgbPieces[FirstBadPiece]))
    => IF FitsI32(RgbPieces[FirstBadPiece])
       THEN outcome = RgbComponentOutOfRange(LitValue(RgbPieces[FirstBadPiece]))
       ELSE outcome = RgbComponentParseError(RgbPieces[FirstBadPiece])

\* C6: "rgb(0,256,-1)" was refused for its second piece, 256
C6_Witness ==
    Done /\ input = <<114, 103, 98, 40, 48, 44, 50, 53, 54, 44, 45, 49, 41>> /\ outcome = RgbComponentOutOfRange(256)

\* C7 as claimed: rgb(r,g,b) with r, g, b of 0..255 and any whitespace before
\* "rgb", between "rgb" and "(", after "(", around either comma, before ")" or
\* after ")" gives the Color{r,g,b} of the compact form.
C7_WhitespaceAnywhere ==
    (Done /\ IsCompactRgb(Squeeze(input)) /\ WsOnlyBetweenTokens(input))
    => /\ outcome = CompactColor(Squeeze(input))
       /\ outcome = parse_color(Squeeze(input))

\* C7 amended: the same holds for whitespace at every one of these positions
\* except between "rgb" and "("; with whitespace there the input is not
\* recognised as rgb() and the result is MissingHashPrefix.
C7_WhitespaceBesidesKeyword ==
    (Done /\ IsCompactRgb(Squeeze(input)) /\ WsOnlyBetweenTokens(input))
    => IF GapAfterKeyword
       THEN outcome = MissingHashPrefix
       ELSE /\ outcome = CompactColor(Squeeze(input))
            /\ outcome = parse_color(Squeeze(input))

\* C7: " rgb( 26 , 43 , 60 ) " gave (26, 43, 60)
C7_Witness ==
    Done /\ input = <<32, 114, 103, 98, 40, 32, 50, 54, 32, 44, 32, 52, 51, 32, 44, 32, 54, 48, 32, 41, 32>> /\ outcome = Color(26, 43, 60)

\* C8: whenever the rgb branch returns Ok, the trimmed input is a string of the
\* Rgb production ("rgb" "(" Int "," Int "," Int ")", Int an optional '-' and
\* digits, whitespace only between tokens, nothing after the ")"), and the
\* channels are the three integers in source order.
C8_OnlyRgbProduction ==
    (Done /\ HasRgbHead /\ outcome.tag = "Ok")
    => /\ MatchesRgbProduction(Trimmed)
       /\ LET pieces == CompactPieces(Squeeze(Trimmed))
          IN  outcome = Color(LitValue(pieces[1]), LitValue(pieces[2]), LitValue(pieces[3]))

\* a percentage: a number the library parses, followed by '%' -- the Reals of the
\* grammar and whatever else str::parse::<f32> accepts
IsPercent(p) ==
    /\ strip_suffix_pct(p).some
    /\ parse_f32(strip_suffix_pct(p).v).ok

HslPieces == trimmed_parts(Slice(Trimmed, find(Trimmed, 40) + 1, rfind(Trimmed, 41)))

\* hsl(H, S%, L%) with H an integer literal (of at most 9 digits) and S, L percentages
IsIntegerHueHsl ==
    /\ HasHslHead
    /\ rfind(Trimmed, 41) = len(Trimmed) - 1
    /\ Len(HslPieces) = 3
    /\ IsGrammarInt(HslPieces[1]) /\ Len(LitDigits(HslPieces[1])) <= 9
    /\ IsPercent(HslPieces[2]) /\ IsPercent(HslPieces[3])

Hue == LitValue(HslPieces[1])

\* the same hsl() with the hue h
WithHue(h) ==
    Str_hsl_open \o IntLit(h) \o <<44>> \o HslPieces[2] \o <<44>> \o HslPieces[3] \o <<41>>

Abs(n) == IF n < 0 THEN -n ELSE n

\* an hsl(...) whose three numbers the library has parsed
HslNumbersParsed ==
    /\ HasHslHead
    /\ rfind(Trimmed, 41) > find(Trimmed, 40) + 1
    /\ Len(HslPieces) = 3
    /\ parse_f32(HslPieces[1]).ok
    /\ IsPercent(HslPieces[2]) /\ IsPercent(HslPieces[3])

\* C10 as claimed: for every integer hue H and every k, hsl(H+360k, S%, L%) gives
\* the Color of hsl(H, S%, L%); hsl(360,100%,50%) and hsl(0,100%,50%) give
\* (255,0,0); the conversion never fails once the three numbers have parsed
\* (whatever they parsed to: a NaN and the infinities included).
C10_HuePeriodicEverywhere ==
    /\ (Done /\ HslNumbersParsed) => outcome.tag = "Ok"
    /\ (Done /\ IsIntegerHueHsl)
       => /\ outcome.tag = "Ok"
          /\ \A k \in Turns : outcome = parse_color(WithHue(Hue + 360 * k))
          /\ Hue \in {0, 360} /\ HslPieces[2] = <<49, 48, 48, 37>> /\ HslPieces[3] = <<53, 48, 37>>
               => outcome = Color(255, 0, 0)

\* C10 amended: the same for every integer hue H and every k such that H and
\* H+360k are both at most 2^24 in magnitude, the integers f32 represents exactly.
C10_HuePeriodicWithinF32 ==
    /\ (Done /\ HslNumbersParsed) => outcome.tag = "Ok"
    /\ (Done /\ IsIntegerHueHsl)
       => /\ outcome.tag = "Ok"
          /\ \A k \in Turns :
               (Abs(Hue) <= TwoP24 /\ Abs(Hue + 360 * k) <= TwoP24)
               => outcome = parse_color(WithHue(Hue + 360 * k))
          /\ Hue \in {0, 360} /\ HslPieces[2] = <<49, 48, 48, 37>> /\ HslPieces[3] = <<53, 48, 37>>
               => outcome = Color(255, 0, 0)

\* C10: "hsl(-1,100%,50%)", a negative hue, gave the color of hue 359
C10_Witness ==
    Done /\ input = <<104, 115, 108, 40, 45, 49, 44, 49, 48, 48, 37, 44, 53, 48, 37, 41>> /\ outcome = Color(255, 0, 4)

====
